---- MODULE Spec2Model ----
(***************************************************************************)
(* The contact form of src/app/page.js (component ContactUs): form state,  *)
(* debounced remote validation of the email and phone fields, and the      *)
(* submit handler that hands the form to emailjs.send.                     *)
(*                                                                         *)
(* The file holds two variants of the component (lines 12-275 and          *)
(* 289-515).  They differ in the verification endpoints and in the         *)
(* debounce delay (5000 ms and 500 ms); the handlers are otherwise the     *)
(* same statement for statement, so one state machine models both.         *)
(*                                                                         *)
(* One step of the model is one task of the browser's event loop: an input *)
(* event, a submit event, a debounce timer expiring, the completion of an  *)
(* axios request together with the continuation awaiting it, the           *)
(* completion of emailjs.send together with the continuation awaiting it.  *)
(* React re-renders the component at the end of every task that set state, *)
(* so each handler reads the state of the model directly.                  *)
(***************************************************************************)
EXTENDS Naturals, Sequences, FiniteSets

\* ------------------------------------------------------------------ bounds
MaxEdits == 3        \* input events of the validated fields (email and phone together)
MaxSubmits == 2      \* clicks on the submit button

\* ----------------------------------------------------------- vocabulary
Fields == {"firstName", "lastName", "email", "phone"}
VFields == {"email", "phone"}
Values == {"", "a"}            \* texts of the firstName, lastName and phone inputs
EmailValues == {"", "a", "b"}  \* texts of the email input
Outcomes == {"valid", "invalid", "unavailable"}

InvalidEmail == "Invalid email address"
InvalidPhone == "Invalid phone number"
MsgMissing == "Please fill in all fields."
MsgFixErrors == "Please fix validation errors before submitting."
MsgEmailUnavailable == "Email validation service is currently unavailable. Please try again later."
MsgPhoneUnavailable == "Phone validation service is currently unavailable. Please try again later."
MsgSuccess == "Message sent successfully!"
MsgFailure == "Failed to send message. Please try again."
Msgs == {MsgMissing, MsgFixErrors, MsgEmailUnavailable, MsgPhoneUnavailable,
         MsgSuccess, MsgFailure}

VARIABLES
  formData,      \* useState: field -> text
  errors,        \* useState: validated field -> error message ("" = none)
  isSubmitting,  \* useState: a send is in progress
  timers,        \* pending debounce timers, in the order they will expire
  inflight,      \* axios.get requests sent and not yet settled
  sent,          \* the calls of emailjs.send, in order, each with its status
  toasts,        \* message -> number of times toast showed it
  nEdits,        \* validated field -> number of input events of the field so far
  issued,        \* validated field -> number of verification calls issued
  applied,       \* validated field -> number of the call whose result setErrors applied last
  results,       \* validated field -> the <<value, outcome>> of the calls completed so far
  nSubmits       \* number of clicks on the submit button so far

vars == <<formData, errors, isSubmitting, timers, inflight, sent, toasts,
          nEdits, issued, applied, results, nSubmits>>

EmptyForm == [f \in Fields |-> ""]

Init ==
  /\ formData = EmptyForm
  /\ errors = [f \in VFields |-> ""]
  /\ isSubmitting = FALSE
  /\ timers = <<>>
  /\ inflight = {}
  /\ sent = <<>>
  /\ toasts = [m \in Msgs |-> 0]
  /\ nEdits = [f \in VFields |-> 0]
  /\ issued = [f \in VFields |-> 0]
  /\ applied = [f \in VFields |-> 0]
  /\ results = [f \in VFields |-> {}]
  /\ nSubmits = 0

\* --------------------------------------------------------------- debounce
\* Mutant of DebounceCall: an empty text schedules nothing.
DebounceCallSkipsEmpty(ts, f, v, e) ==
  LET Keep(t) == ~(t.field = f /\ t.cur)
  IN IF v = "" THEN ts
     ELSE Append(SelectSeq(ts, Keep), [field |-> f, value |-> v, edit |-> e, cur |-> TRUE])

\* Mutant of DebounceCall: the function runs on the leading and on the
\* trailing edge, so one call starts two verifications.
DebounceCallLeadingAndTrailing(ts, f, v, e) ==
  LET Keep(t) == ~(t.field = f /\ t.cur)
      new == [field |-> f, value |-> v, edit |-> e, cur |-> TRUE]
  IN Append(Append(SelectSeq(ts, Keep), new), new)

\* lodash debounce(fn, wait), trailing edge: a call on a debounced function
\* clears the timer that function holds, if any, and starts a new one.
\* `cur` marks the timers held by the debounced functions of the current
\* render.
DebounceCall(ts, f, v, e) ==
  LET Keep(t) == ~(t.field = f /\ t.cur)
  IN Append(SelectSeq(ts, Keep), [field |-> f, value |-> v, edit |-> e, cur |-> TRUE])

\* The component body runs debounce(...) on every render: the render makes
\* new debounced functions, and the timers of the old ones stay pending.
Rerender(ts) ==
  [i \in 1..Len(ts) |-> [ts[i] EXCEPT !.cur = FALSE]]

\* ------------------------------------------------------------ input events
\* handleInputChange is the onChange of the firstName, lastName and email
\* inputs; onChange fires when the text of the input changes.
InputNames == {"firstName", "lastName", "email"}

HandleInputChange(name, value) ==
  /\ value # formData[name]
  /\ formData' = [formData EXCEPT ![name] = value]
  /\ IF name = "email"
     THEN /\ nEdits["email"] + nEdits["phone"] < MaxEdits
          /\ nEdits' = [nEdits EXCEPT !["email"] = @ + 1]
          /\ timers' = Rerender(DebounceCall(timers, "email", value, nEdits["email"] + 1))
     ELSE /\ timers' = Rerender(timers)
          /\ UNCHANGED nEdits
  /\ UNCHANGED <<errors, isSubmitting, inflight, sent, toasts, issued, applied, results, nSubmits>>

\* Mutant of HandlePhoneChange: the edit also clears the phone's error.
HandlePhoneChangeClearsError(value) ==
  /\ nEdits["email"] + nEdits["phone"] < MaxEdits
  /\ value # formData["phone"]
  /\ formData' = [formData EXCEPT !["phone"] = value]
  /\ nEdits' = [nEdits EXCEPT !["phone"] = @ + 1]
  /\ timers' = Rerender(DebounceCall(timers, "phone", value, nEdits["phone"] + 1))
  /\ errors' = [errors EXCEPT !["phone"] = ""]
  /\ UNCHANGED <<isSubmitting, inflight, sent, toasts, issued, applied, results, nSubmits>>

\* handlePhoneChange is the onChange of PhoneInput.
HandlePhoneChange(value) ==
  /\ nEdits["email"] + nEdits["phone"] < MaxEdits
  /\ value # formData["phone"]
  /\ formData' = [formData EXCEPT !["phone"] = value]
  /\ nEdits' = [nEdits EXCEPT !["phone"] = @ + 1]
  /\ timers' = Rerender(DebounceCall(timers, "phone", value, nEdits["phone"] + 1))
  /\ UNCHANGED <<errors, isSubmitting, inflight, sent, toasts, issued, applied, results, nSubmits>>

\* ------------------------------------------------------------ verification
\* A debounce timer expires: the debounced async function starts and sends
\* its axios.get.  Both debounced functions wait the same delay, so timers
\* expire in the order they were started.
TimerFire ==
  /\ timers # <<>>
  /\ LET t == Head(timers)
     IN /\ issued' = [issued EXCEPT ![t.field] = @ + 1]
        /\ inflight' = inflight \cup
              {[field |-> t.field, value |-> t.value, call |-> issued[t.field] + 1]}
  /\ timers' = Tail(timers)
  /\ UNCHANGED <<formData, errors, isSubmitting, sent, toasts, nEdits, applied, results, nSubmits>>

\* validateEmailWithAbstract / validatePhoneWithAbstract (and the Hunter /
\* Numverify variants): the value the verifier returns for each way the
\* request can end.  The catch block returns false.
IsValid(outcome) == outcome = "valid"

UnavailableMsg(f) == IF f = "email" THEN MsgEmailUnavailable ELSE MsgPhoneUnavailable
InvalidMsg(f) == IF f = "email" THEN InvalidEmail ELSE InvalidPhone

\* The catch block of the verifier: toast.error on a failed request.
VerifierToasts(ts, f, outcome) ==
  IF outcome = "unavailable" THEN [ts EXCEPT ![UnavailableMsg(f)] = @ + 1] ELSE ts

\* Mutant of NextErrors: a failed request leaves the entry as it was.
NextErrorsKeepOnUnavailable(errs, f, outcome) ==
  IF outcome = "unavailable" THEN errs
  ELSE [errs EXCEPT ![f] = IF outcome = "valid" THEN "" ELSE InvalidMsg(f)]

\* Mutant of NextErrors: the update does not spread the previous errors, so
\* the other field's entry is lost.
NextErrorsDropsOther(errs, f, outcome) ==
  [g \in VFields |-> IF g = f THEN (IF outcome = "valid" THEN "" ELSE InvalidMsg(f)) ELSE ""]

\* setErrors((prevErrors) => ({ ...prevErrors, <f>: isValid ? "" : "Invalid ..." }))
NextErrors(errs, f, outcome) ==
  [errs EXCEPT ![f] = IF IsValid(outcome) THEN "" ELSE InvalidMsg(f)]

\* An axios request settles and the debounced function awaiting it resumes.
VerifyResponse(r, outcome) ==
  /\ r \in inflight
  /\ inflight' = inflight \ {r}
  /\ toasts' = VerifierToasts(toasts, r.field, outcome)
  /\ errors' = NextErrors(errors, r.field, outcome)
  /\ applied' = [applied EXCEPT ![r.field] = r.call]
  /\ results' = [results EXCEPT ![r.field] = @ \cup {<<r.value, outcome>>}]
  /\ timers' = Rerender(timers)
  /\ UNCHANGED <<formData, isSubmitting, sent, nEdits, issued, nSubmits>>

\* ------------------------------------------------------------------ submit
\* Mutant of MissingFields: the phone is not checked.
MissingFieldsNoPhone(fd) ==
  fd["firstName"] = "" \/ fd["lastName"] = "" \/ fd["email"] = ""

\* if (!formData.firstName || !formData.lastName || !formData.email || !formData.phone)
MissingFields(fd) ==
  fd["firstName"] = "" \/ fd["lastName"] = "" \/ fd["email"] = "" \/ fd["phone"] = ""

\* Mutant of HasErrors: the phone error is not checked.
HasErrorsEmailOnly(errs) == errs["email"] # ""

\* if (errors.email || errors.phone)
HasErrors(errs) == errs["email"] # "" \/ errs["phone"] # ""

\* Mutant of Payload: email and phone change places.
PayloadSwapped(fd) ==
  [firstName |-> fd["firstName"], lastName |-> fd["lastName"],
   email |-> fd["phone"], phone |-> fd["email"]]

\* The third argument of emailjs.send.
Payload(fd) ==
  [firstName |-> fd["firstName"], lastName |-> fd["lastName"],
   email |-> fd["email"], phone |-> fd["phone"]]

\* Mutant of ButtonDisabled: the button stays enabled during a send.
ButtonNeverDisabled == FALSE

\* Mutant of ButtonDisabled: the button is also disabled while a verification
\* request is in flight.
ButtonDisabledWhileVerifying == isSubmitting \/ inflight # {}

\* <button type="submit" disabled={isSubmitting}>
ButtonDisabled == isSubmitting

\* Mutant of SendEmail: the validation errors are checked before the
\* required fields.
SendEmailErrorsFirst ==
  IF HasErrors(errors)
  THEN /\ toasts' = [toasts EXCEPT ![MsgFixErrors] = @ + 1]
       /\ UNCHANGED <<isSubmitting, sent>>
  ELSE IF MissingFields(formData)
  THEN /\ toasts' = [toasts EXCEPT ![MsgMissing] = @ + 1]
       /\ UNCHANGED <<isSubmitting, sent>>
  ELSE /\ sent' = Append(sent, [payload |-> Payload(formData), status |-> "outstanding"])
       /\ isSubmitting' = TRUE
       /\ UNCHANGED toasts

\* sendEmail, up to its await.  setIsSubmitting(true) followed by
\* setIsSubmitting(false) in the same task leaves isSubmitting false.
SendEmail ==
  IF MissingFields(formData)
  THEN /\ toasts' = [toasts EXCEPT ![MsgMissing] = @ + 1]
       /\ UNCHANGED <<isSubmitting, sent>>
  ELSE IF HasErrors(errors)
  THEN /\ toasts' = [toasts EXCEPT ![MsgFixErrors] = @ + 1]
       /\ UNCHANGED <<isSubmitting, sent>>
  ELSE /\ sent' = Append(sent, [payload |-> Payload(formData), status |-> "outstanding"])
       /\ isSubmitting' = TRUE
       /\ UNCHANGED toasts

\* The user activates the submit button.  A disabled button submits nothing.
SubmitAttempt ==
  /\ nSubmits < MaxSubmits
  /\ nSubmits' = nSubmits + 1
  /\ IF ButtonDisabled
     THEN UNCHANGED <<isSubmitting, sent, toasts>>
     ELSE SendEmail
  /\ timers' = Rerender(timers)
  /\ UNCHANGED <<formData, errors, inflight, nEdits, issued, applied, results>>

\* Mutant of SubmittingAfterSend: the finally block does not clear the flag.
SubmittingStaysSet == isSubmitting

\* finally { setIsSubmitting(false) }
SubmittingAfterSend == FALSE

\* Mutants: no reset after a successful send; a reset after a failed one.
FormKeptAfterSuccess(fd) == fd
FormResetAfterFailure(fd) == EmptyForm

\* The form after emailjs.send resolved: setFormData({ firstName: "", ... }).
FormAfterSuccess(fd) == EmptyForm
\* The form after emailjs.send rejected: the catch block sets no state.
FormAfterFailure(fd) == fd

\* emailjs.send resolves: toast.success, reset of the form, finally block.
SendSuccess(i) ==
  /\ i \in 1..Len(sent)
  /\ sent[i].status = "outstanding"
  /\ sent' = [sent EXCEPT ![i].status = "ok"]
  /\ toasts' = [toasts EXCEPT ![MsgSuccess] = @ + 1]
  /\ formData' = FormAfterSuccess(formData)
  /\ isSubmitting' = SubmittingAfterSend
  /\ timers' = Rerender(timers)
  /\ UNCHANGED <<errors, inflight, nEdits, issued, applied, results, nSubmits>>

\* emailjs.send rejects: catch block, finally block.
SendFailure(i) ==
  /\ i \in 1..Len(sent)
  /\ sent[i].status = "outstanding"
  /\ sent' = [sent EXCEPT ![i].status = "failed"]
  /\ toasts' = [toasts EXCEPT ![MsgFailure] = @ + 1]
  /\ formData' = FormAfterFailure(formData)
  /\ isSubmitting' = SubmittingAfterSend
  /\ timers' = Rerender(timers)
  /\ UNCHANGED <<errors, inflight, nEdits, issued, applied, results, nSubmits>>

Next ==
  \/ \E name \in InputNames :
       \E value \in (IF name = "email" THEN EmailValues ELSE Values) :
         HandleInputChange(name, value)
  \/ \E value \in Values : HandlePhoneChange(value)
  \/ TimerFire
  \/ \E r \in inflight, o \in Outcomes : VerifyResponse(r, o)
  \/ SubmitAttempt
  \/ \E i \in 1..Len(sent) : SendSuccess(i)
  \/ \E i \in 1..Len(sent) : SendFailure(i)

Spec == Init /\ [][Next]_vars

\* =================================================================== claims
\* A step in which sendEmail runs: the submit button was activated while it
\* was enabled.
SendEmailRuns == nSubmits' = nSubmits + 1 /\ ~isSubmitting

AllFilled == \A f \in Fields : formData[f] # ""

TimersOf(f) == {i \in 1..Len(timers) : timers[i].field = f}
InflightOf(f) == {r \in inflight : r.field = f}

\* C1: when edits of a validated field follow each other before the timer of
\* the previous edit has expired, only the last edit leads to a verification
\* call: every call issued for a field is the call scheduled by the latest
\* edit of that field (the timers of the earlier edits were discarded).
C1_OnlyLastEditIsVerified ==
  [][\A f \in VFields :
       issued'[f] # issued[f] => Head(timers).edit = nEdits[f]]_vars

\* C2: per field, the results that setErrors applies come in the order the
\* calls were issued: once the result of a call has been applied, the result
\* of a call issued before it is never applied.
C2_StaleResultNeverApplied ==
  [][\A f \in VFields : applied'[f] >= applied[f]]_vars

\* C3: each validated field has at most one verification scheduled or in
\* flight.
C3_AtMostOnePendingPerField ==
  \A f \in VFields : Cardinality(TimersOf(f)) + Cardinality(InflightOf(f)) <= 1

\* C4: when sendEmail runs with a required field empty, emailjs.send is not
\* called, the form is unchanged and the "fill in all fields" message is
\* shown (once).
C4_MissingFieldBlocks ==
  [][(SendEmailRuns /\ ~AllFilled) =>
       /\ sent' = sent
       /\ formData' = formData
       /\ isSubmitting' = FALSE
       /\ toasts' = [toasts EXCEPT ![MsgMissing] = @ + 1]]_vars

\* C4 witness: a submit was made with the phone never entered and the other
\* fields filled; it was blocked with the message.
C4_Witness ==
  /\ nEdits["phone"] = 0
  /\ nSubmits = 1
  /\ toasts[MsgMissing] = 1
  /\ sent = <<>>
  /\ \A f \in InputNames : formData[f] # ""

\* C5: when sendEmail runs with all four fields filled and an error on the
\* email or the phone, emailjs.send is not called, the form is unchanged and
\* the "fix validation errors" message is shown (once).
C5_ValidationErrorBlocks ==
  [][(SendEmailRuns /\ AllFilled /\ (errors["email"] # "" \/ errors["phone"] # "")) =>
       /\ sent' = sent
       /\ formData' = formData
       /\ isSubmitting' = FALSE
       /\ toasts' = [toasts EXCEPT ![MsgFixErrors] = @ + 1]]_vars

\* C5 witness: a submit of a filled form was blocked for the phone's error
\* alone.
C5_Witness ==
  /\ nSubmits = 1
  /\ toasts[MsgFixErrors] = 1
  /\ toasts[MsgMissing] = 0
  /\ sent = <<>>
  /\ AllFilled
  /\ applied["email"] = 0
  /\ errors["phone"] = InvalidPhone

NoErrors == errors["email"] = "" /\ errors["phone"] = ""

Outstanding == {i \in 1..Len(sent) : sent[i].status = "outstanding"}

\* A step in which the send numbered i ends with the given status.
SendEnds(i, status) ==
  /\ i \in Outstanding
  /\ Len(sent') = Len(sent)
  /\ sent'[i].status = status

\* C6: a submit that passes the gate calls emailjs.send exactly once, with
\* the four values of the form at that moment; no other step calls
\* emailjs.send.
C6_PassingSubmitSendsFormOnce ==
  [][/\ (SendEmailRuns /\ AllFilled /\ NoErrors) =>
          /\ Len(sent') = Len(sent) + 1
          /\ SubSeq(sent', 1, Len(sent)) = sent
          /\ sent'[Len(sent')].status = "outstanding"
          /\ \A f \in Fields : sent'[Len(sent')].payload[f] = formData[f]
     /\ Len(sent') # Len(sent) => (SendEmailRuns /\ AllFilled /\ NoErrors)]_vars

\* C6 witness: one send is outstanding, with an email and a phone that differ.
C6_Witness ==
  /\ Len(sent) = 1
  /\ sent[1].status = "outstanding"
  /\ sent[1].payload["email"] = "b"
  /\ sent[1].payload["phone"] = "a"
  /\ nSubmits = 1

\* C7: when emailjs.send succeeds the form becomes all-empty and the success
\* message is shown once for that send, whatever happened during the send.
C7_SuccessResetsForm ==
  /\ [][\A i \in 1..Len(sent) : SendEnds(i, "ok") =>
          /\ \A f \in Fields : formData'[f] = ""
          /\ toasts' = [toasts EXCEPT ![MsgSuccess] = @ + 1]]_vars
  /\ [](toasts[MsgSuccess] = Cardinality({i \in 1..Len(sent) : sent[i].status = "ok"}))

\* C7 witness: the send succeeded and emptied the form although the email
\* was edited (second edit, to a text other than the one sent) during the send.
C7_Witness ==
  /\ Len(sent) = 1
  /\ sent[1].status = "ok"
  /\ toasts[MsgSuccess] = 1
  /\ formData = [f \in Fields |-> ""]
  /\ nEdits["email"] = 2
  /\ \E i \in 1..Len(timers) :
       /\ timers[i].field = "email"
       /\ timers[i].edit = 2
       /\ timers[i].value \notin {"", sent[1].payload["email"]}

\* C8: when emailjs.send fails, the step that handles the failure leaves the
\* form as it is and shows the failure message once (and no success message).
C8_FailureKeepsForm ==
  /\ [][\A i \in 1..Len(sent) : SendEnds(i, "failed") =>
          /\ formData' = formData
          /\ toasts' = [toasts EXCEPT ![MsgFailure] = @ + 1]]_vars
  /\ [](toasts[MsgFailure] = Cardinality({i \in 1..Len(sent) : sent[i].status = "failed"}))

\* C8 witness: a send failed and the form still holds the values submitted.
C8_Witness ==
  /\ Len(sent) = 1
  /\ sent[1].status = "failed"
  /\ toasts[MsgFailure] = 1
  /\ \A f \in Fields : formData[f] = sent[1].payload[f]

\* C9: while a send is outstanding a submit attempt does nothing (no call of
\* emailjs.send, no message, isSubmitting unchanged), and at most one send is
\* outstanding.
C9_NoReentrantSubmit ==
  /\ [][(nSubmits' # nSubmits /\ isSubmitting) =>
          /\ sent' = sent
          /\ toasts' = toasts
          /\ isSubmitting' = isSubmitting
          /\ formData' = formData]_vars
  /\ [](Cardinality(Outstanding) <= 1)
  /\ [](Outstanding # {} => isSubmitting)

\* C9 witness: the second submit attempt came during the send of the first
\* and changed nothing.
C9_Witness ==
  /\ nSubmits = 2
  /\ isSubmitting
  /\ Len(sent) = 1
  /\ sent[1].status = "outstanding"
  /\ \A m \in Msgs : toasts[m] = 0

\* A step in which the verification of field f ends as unavailable (the
\* verifier's catch block shows its message).
UnavailableStep(f) == toasts'[UnavailableMsg(f)] # toasts[UnavailableMsg(f)]

\* C10 as stated: a verification that ends as unavailable leaves errors as
\* it was; only the warning is shown.
C10_UnavailableLeavesErrors ==
  [][\A f \in VFields : UnavailableStep(f) => errors' = errors]_vars

\* C10 amended: a verification that ends as unavailable shows the warning
\* once and sets the field's entry to its "Invalid ..." message, as an
\* invalid result does, whatever the entry was; the other field's entry is
\* unchanged.
C10_UnavailableMarksInvalid ==
  [][\A f \in VFields : UnavailableStep(f) =>
       /\ toasts' = [toasts EXCEPT ![UnavailableMsg(f)] = @ + 1]
       /\ errors'[f] = (IF f = "email" THEN "Invalid email address" ELSE "Invalid phone number")
       /\ \A g \in VFields \ {f} : errors'[g] = errors[g]]_vars

\* C10 witness: the only verification of the email ended as unavailable and
\* the email is marked invalid.
C10_Witness ==
  /\ issued["email"] = 1
  /\ applied["email"] = 1
  /\ toasts[MsgEmailUnavailable] = 1
  /\ errors["email"] = InvalidEmail

\* The outcomes of the verification calls completed so far for the text the
\* field holds now.
OutcomesOfCurrent(f) == {o \in Outcomes : <<formData[f], o>> \in results[f]}

\* C11: if the verifications completed so far for the current text of a
\* validated field all ended as unavailable (and at least one did), a submit
\* attempt does not call emailjs.send.
C11_UnavailableOnlyBlocks ==
  [][(SendEmailRuns /\ \E f \in VFields : OutcomesOfCurrent(f) = {"unavailable"})
       => sent' = sent]_vars

\* The outcome of a run of sendEmail: one of the two messages, or a call of
\* emailjs.send.
GateDecides ==
  \/ toasts' = [toasts EXCEPT ![MsgMissing] = @ + 1] /\ sent' = sent
  \/ toasts' = [toasts EXCEPT ![MsgFixErrors] = @ + 1] /\ sent' = sent
  \/ toasts' = toasts /\ Len(sent') = Len(sent) + 1

\* C12: a verification request that has not returned does not hold up the
\* submit: a submit attempt made while a request is in flight (and no send
\* is in progress) is decided in the same step, without touching the
\* request, and when a send ends isSubmitting is false again.
C12_PendingVerificationNeverHangsSubmit ==
  /\ [][(nSubmits' = nSubmits + 1 /\ ~isSubmitting /\ inflight # {}) =>
          (GateDecides /\ inflight' = inflight)]_vars
  /\ [][\A i \in 1..Len(sent) :
          (SendEnds(i, "ok") \/ SendEnds(i, "failed")) => ~isSubmitting']_vars

\* C12 witness: the only verification call of the email never returned; a
\* submit was nevertheless handed to emailjs.send, the send failed and a
\* second submit was decided as well.
C12_Witness ==
  /\ \E r \in inflight : r.field = "email" /\ r.call = 1
  /\ issued["email"] = 1
  /\ results["email"] = {}
  /\ nSubmits = 2
  /\ Len(sent) = 2
  /\ sent[1].status = "failed"
  /\ ~isSubmitting

\* C13: errors changes only in a step that applies the result of a
\* completed verification request: that step settles one request of the
\* changed field and changes neither the form nor the sends; edits, timers,
\* submit attempts and the end of a send leave errors unchanged.
C13_ErrorsChangeOnlyOnResult ==
  [][\A f \in VFields : errors'[f] # errors[f] =>
       /\ \E r \in inflight : r.field = f /\ inflight' = inflight \ {r}
       /\ formData' = formData
       /\ sent' = sent
       /\ nEdits' = nEdits
       /\ nSubmits' = nSubmits
       /\ Len(timers') = Len(timers)]_vars

\* C13 witness: the phone carries an error while it was edited again, a
\* submit was blocked for it and an earlier send succeeded.
C13_Witness ==
  /\ errors["phone"] = InvalidPhone
  /\ applied["phone"] = 1
  /\ nEdits["phone"] = 2
  /\ Len(sent) = 1
  /\ sent[1].status = "ok"
  /\ toasts[MsgMissing] = 1

\* C14: isSubmitting is true exactly in the states where a send is
\* outstanding; after a blocked attempt, a successful send or a failed send
\* it is false.
C14_SubmittingIffSendOutstanding ==
  isSubmitting <=> (Outstanding # {})

\* C14 witness: one attempt was blocked, one send succeeded, and
\* isSubmitting is false.
C14_Witness ==
  /\ nSubmits = 2
  /\ toasts[MsgFixErrors] = 1
  /\ Len(sent) = 1
  /\ sent[1].status = "ok"
  /\ ~isSubmitting

\* C15: nothing is re-issued by the program: the calls of emailjs.send never
\* outnumber the submit attempts, and the verification calls and the pending
\* timers of a field together never outnumber the edits of that field.
C15_NoAutomaticRetry ==
  /\ Len(sent) <= nSubmits
  /\ \A f \in VFields : issued[f] + Cardinality(TimersOf(f)) <= nEdits[f]

\* C15 witness: the only verification of the email ended as unavailable, the
\* only send failed, and nothing is scheduled, in flight or outstanding.
C15_Witness ==
  /\ nEdits["email"] = 1
  /\ issued["email"] = 1
  /\ toasts[MsgEmailUnavailable] = 1
  /\ nSubmits = 1
  /\ Len(sent) = 1
  /\ sent[1].status = "failed"
  /\ timers = <<>>
  /\ inflight = {}

\* The number of messages shown so far.
TotalToasts ==
  toasts[MsgMissing] + toasts[MsgFixErrors] + toasts[MsgEmailUnavailable]
    + toasts[MsgPhoneUnavailable] + toasts[MsgSuccess] + toasts[MsgFailure]

\* C16: a blocked submit attempt shows exactly one message, and when a
\* required field is empty and an error is present as well the message is
\* the "fill in all fields" one, not the "fix validation errors" one.
C16_OneMessagePerBlockedSubmit ==
  [][/\ (SendEmailRuns /\ sent' = sent) =>
          /\ toasts'[MsgMissing] + toasts'[MsgFixErrors]
               = toasts[MsgMissing] + toasts[MsgFixErrors] + 1
          /\ \A m \in Msgs \ {MsgMissing, MsgFixErrors} : toasts'[m] = toasts[m]
     /\ (SendEmailRuns /\ ~AllFilled /\ ~NoErrors) =>
          /\ sent' = sent
          /\ toasts'[MsgMissing] = toasts[MsgMissing] + 1
          /\ toasts'[MsgFixErrors] = toasts[MsgFixErrors]]_vars

\* C16 witness: the phone was never entered and the email carries an error;
\* one submit attempt showed the "fill in all fields" message and nothing
\* else was shown.
C16_Witness ==
  /\ nEdits["phone"] = 0
  /\ errors["email"] = InvalidEmail
  /\ results["email"] = {<<formData["email"], "invalid">>}
  /\ nSubmits = 1
  /\ toasts[MsgMissing] = 1
  /\ TotalToasts = 1

\* C17: every edit of the email or the phone schedules one verification
\* carrying the text as entered (the empty text included) and the call later
\* issued carries the scheduled text; a step that is no such edit schedules
\* nothing.
C17_EveryValidatedEditSchedulesAsEntered ==
  [][/\ \A f \in VFields : nEdits'[f] # nEdits[f] =>
          /\ Len(timers') = Len(timers) + 1
          /\ timers'[Len(timers')].field = f
          /\ timers'[Len(timers')].value = formData'[f]
          /\ timers'[Len(timers')].edit = nEdits'[f]
     /\ nEdits' = nEdits => Len(timers') <= Len(timers)
     /\ \A f \in VFields : issued'[f] # issued[f] =>
          inflight' \ inflight =
            {[field |-> f, value |-> Head(timers).value, call |-> issued'[f]]}]_vars

\* C17 witness: the email was cleared by its second edit and a verification
\* of the empty text is scheduled; both names were entered and nothing was
\* scheduled for them.
C17_Witness ==
  /\ formData["firstName"] # ""
  /\ formData["lastName"] # ""
  /\ nEdits["email"] = 2
  /\ nEdits["phone"] = 0
  /\ issued["email"] = 1
  /\ Len(timers) = 1
  /\ timers[1].field = "email"
  /\ timers[1].value = ""
  /\ timers[1].edit = 2

\* The text of field f is verified: a call for it completed as valid, and
\* no verification of the field is scheduled or in flight.
VerifiedValid(f) ==
  /\ <<formData[f], "valid">> \in results[f]
  /\ TimersOf(f) = {}
  /\ InflightOf(f) = {}

\* C18: emailjs.send is called only with an email and a phone for which a
\* verification completed as valid, and never while a verification of either
\* field is scheduled or in flight.
C18_OnlyVerifiedValuesAreSent ==
  [][Len(sent') # Len(sent) => \A f \in VFields : VerifiedValid(f)]_vars

\* C19: the step that applies a verification result of one field leaves the
\* error of the other field as it was.
C19_ResultLeavesOtherFieldAlone ==
  [][\A r \in inflight : r \notin inflight' =>
       \A g \in VFields \ {r.field} : errors'[g] = errors[g]]_vars

\* C19 witness: results of both fields were applied, the phone's last, and
\* the email keeps its error while the phone has none.
C19_Witness ==
  /\ applied["email"] = 1
  /\ applied["phone"] = 2
  /\ results["email"] = {<<"a", "invalid">>}
  /\ errors["email"] = InvalidEmail
  /\ errors["phone"] = ""
  /\ inflight = {}

====
